---- MODULE Spec2Model ----
(***************************************************************************)
(* flashair_sync.py: the sync orchestrator run(), its instance lock, its   *)
(* cooldown marker, the two watermarks in .env, the WiFi association, the  *)
(* device listing, the local directory and the remote server.              *)
(*                                                                         *)
(* File names are modelled by the naturals 1..MaxFile: the naming          *)
(* convention makes lexical order equal to chronological order, and the    *)
(* code only compares names (<=, >, max, sorted).  0 is the empty string,  *)
(* which is falsy in Python and lexically below every name.                *)
(***************************************************************************)
EXTENDS Integers, Sequences, FiniteSets, TLC

\* ---------------------------------------------------------------- bounds
\* Names on the card, and the configured COOLDOWN_MINUTES.
MaxFile == 2
CooldownMinutes == 1
\* Names in the local directory when the cleanup phase is checked alone.
MaxLocal == 12

\* ------------------------------------------------------ program constants
keep_recent == 10

\* Two invocations that may overlap (cron starts one every minute).
Procs == {1, 2}
Files == 1..MaxFile
MaxAge == CooldownMinutes

HOME == "home"
FLASHAIR == "flashair"
NOSSID == ""
None == -1
NewNetId == 1

VARIABLES
    lastSynced,     \* .env LAST_SYNCED (0 = empty)
    lastScpd,       \* .env LAST_SCPD   (0 = empty)
    cooldownAge,    \* minutes since .last_sync was touched; None = no marker
    lockHolder,     \* process holding the flock on .lock; 0 = free
    lockContent,    \* content of .lock: a pid, 0 = empty file
    ssid,           \* current WiFi association of the host
    deviceFiles,    \* matching CSV names on the card
    localFiles,     \* CSVs in LOCAL_CSV_DIR
    remoteFiles,    \* CSVs received by the remote server
    fetched,        \* history: names some run has fetched from the card
    proc            \* per invocation: position in run() and its locals

vars == <<lastSynced, lastScpd, cooldownAge, lockHolder, lockContent, ssid,
          deviceFiles, localFiles, remoteFiles, fetched, proc>>

store == <<lastSynced, lastScpd>>
disk == <<deviceFiles, localFiles, remoteFiles, fetched>>

\* ------------------------------------------------------------- helpers
Max(S) == CHOOSE x \in S : \A y \in S : y <= x
Min(S) == CHOOSE x \in S : \A y \in S : x <= y

RECURSIVE sorted(_)
sorted(S) == IF S = {} THEN <<>> ELSE <<Min(S)>> \o sorted(S \ {Min(S)})

Range(s) == {s[i] : i \in 1..Len(s)}

\* The locals of an invocation that has not started (or has exited).
Fresh ==
    [pc |-> "idle", resync |-> FALSE, lock |-> FALSE, current |-> NOSSID,
     net_id |-> None, already_on_flashair |-> FALSE,
     new_files |-> <<>>, idx |-> 1, downloaded |-> <<>>,
     to_scp |-> <<>>, sidx |-> 1, last_ok |-> 0, transferred |-> 0,
     scpResult |-> "none", exc |-> "",
     \* history of the run, read by the properties only
     erased |-> 0, decided |-> FALSE, cdAtStart |-> FALSE,
     listed |-> FALSE, touched |-> FALSE, deleted |-> {},
     nScan |-> 0, nJoin |-> 0, nHome |-> 0, homeArg |-> None,
     session |-> FALSE, didUpload |-> FALSE, didCleanup |-> FALSE]

Init ==
    /\ lastSynced = 0
    /\ lastScpd = 0
    /\ cooldownAge = None
    /\ lockHolder = 0
    /\ lockContent = 0
    /\ ssid = HOME
    /\ deviceFiles = {}
    /\ localFiles = {}
    /\ remoteFiles = {}
    /\ fetched = {}
    /\ proc = [p \in Procs |-> Fresh]

Set(p, r) == proc' = [proc EXCEPT ![p] = r]
At(p, label) == proc[p].pc = label

\* ------------------------------------------------------------ cooldown
\* _in_cooldown(): the marker exists and its age is below the threshold.
_in_cooldown(age, minutes) == age # None /\ age < minutes

\* _touch_cooldown(): the marker's age becomes zero.
_touch_cooldown == 0

\* ------------------------------------------------------------ watermark
\* collect_new_files(): (new, skipped) of a sorted listing.
collect_new_lt(remote_files, watermark) ==
    LET IsOld(f) == watermark # 0 /\ f < watermark
        IsNew(f) == ~IsOld(f)
    IN  <<SelectSeq(remote_files, IsNew), SelectSeq(remote_files, IsOld)>>
collect_new_files(remote_files, watermark) ==
    LET IsOld(f) == watermark # 0 /\ f <= watermark
        IsNew(f) == ~IsOld(f)
    IN  <<SelectSeq(remote_files, IsNew), SelectSeq(remote_files, IsOld)>>

\* run() line 547: newest = max(name for p in downloaded).
newest_first(downloaded) == downloaded[1]
newest(downloaded) == Max(Range(downloaded))

\* pending_scp_files(): sorted local names after the upload watermark.
pending_all(local, scp_watermark) == sorted(local)
pending_ge(local, scp_watermark) ==
    LET Pending(f) == scp_watermark = 0 \/ f >= scp_watermark
    IN  SelectSeq(sorted(local), Pending)
pending_scp_files(local, scp_watermark) ==
    LET Pending(f) == scp_watermark = 0 \/ f > scp_watermark
    IN  SelectSeq(sorted(local), Pending)

\* cleanup_local(): the names it unlinks.
cleanup_no_protect(local, watermark, keep) == {f \in local : f <= watermark}
cleanup_local(local, watermark, keep) ==
    LET all_csvs == sorted(local)
        n == Len(all_csvs)
        protected == {all_csvs[i] : i \in {j \in 1..n : j > n - keep}}
    IN  {f \in local : f <= watermark /\ f \notin protected}

\* ---------------------------------------------------------------- lock
\* fcntl.flock(f, LOCK_EX | LOCK_NB) succeeds iff nobody holds the lock.
flock_always(holder) == TRUE
flock_granted(holder) == holder = 0

\* run() lines 500-514: which rule of the run-start decision applies.
run_branch_cooldown_first(cur, in_cd, rs) ==
    IF in_cd /\ ~rs THEN "cooldown"
    ELSE IF cur = FLASHAIR THEN "recovery"
    ELSE IF cur = NOSSID THEN "disconnected"
    ELSE "scan"
run_branch_no_resync(cur, in_cd, rs) ==
    IF cur = FLASHAIR THEN "recovery"
    ELSE IF in_cd THEN "cooldown"
    ELSE IF cur = NOSSID THEN "disconnected"
    ELSE "scan"
run_branch_scan_when_down(cur, in_cd, rs) ==
    IF cur = FLASHAIR THEN "recovery"
    ELSE IF in_cd /\ ~rs THEN "cooldown"
    ELSE "scan"
run_branch(cur, in_cd, rs) ==
    IF cur = FLASHAIR THEN "recovery"
    ELSE IF in_cd /\ ~rs THEN "cooldown"
    ELSE IF cur = NOSSID THEN "disconnected"
    ELSE "scan"

\* ------------------------------------------------------------- actions
\* main(): a new invocation is started (by cron or by hand).
Invoke(p) ==
    /\ At(p, "idle")
    /\ Set(p, [Fresh EXCEPT !.pc = "open"])
    /\ UNCHANGED <<store, cooldownAge, lockHolder, lockContent, ssid, disk>>

\* acquire_lock() line 227: open(lock_path, "w") truncates the file.
OpenLock(p) ==
    /\ At(p, "open")
    /\ lockContent' = 0
    /\ Set(p, [proc[p] EXCEPT !.pc = "flock", !.erased = lockContent])
    /\ UNCHANGED <<store, cooldownAge, lockHolder, ssid, disk>>

\* acquire_lock() lines 228-235 and run() lines 484-491. The --resync flag
\* of the invocation is drawn here: a run that does not get the lock never
\* reads it.
AcquireLock(p) ==
    /\ At(p, "flock")
    /\ IF flock_granted(lockHolder)
       THEN /\ lockHolder' = p
            /\ lockContent' = p
            /\ \E r \in BOOLEAN :
                  Set(p, [proc[p] EXCEPT !.pc = "query", !.lock = TRUE,
                                        !.resync = r, !.erased = 0])
       ELSE /\ UNCHANGED <<lockHolder, lockContent>>
            /\ Set(p, Fresh)
    /\ UNCHANGED <<store, cooldownAge, ssid, disk>>

\* An exception leaving the outer try: only the finally at line 570 is left.
Raise_no_finally(r, e) == [r EXCEPT !.pc = "idle", !.exc = e]
Raise(r, e) == [r EXCEPT !.pc = "release", !.exc = e]

\* run() lines 495-514: get_current_ssid and the run-start decision.
QueryAndDecide(p) ==
    /\ At(p, "query")
    /\ \/ Set(p, Raise(proc[p], "TimeoutExpired")) \* wpa_cli status timed out
       \/ LET cd == _in_cooldown(cooldownAge, CooldownMinutes)
              b == run_branch(ssid, cd, proc[p].resync)
              r == [proc[p] EXCEPT !.current = ssid, !.cdAtStart = cd,
                                   !.decided = TRUE,
                                   !.already_on_flashair = (ssid = FLASHAIR)]
          IN  Set(p, [r EXCEPT !.pc = CASE b = "recovery" -> "wait_http"
                                       [] b = "cooldown" -> "upload"
                                       [] b = "disconnected" -> "recover_home"
                                       [] OTHER -> "scan",
                               !.session = (b = "recovery")])
    /\ UNCHANGED <<store, cooldownAge, lockHolder, lockContent, ssid, disk>>

\* scan_for_ssid() and run() lines 510-514.
Scan(p) ==
    /\ At(p, "scan")
    /\ LET r == [proc[p] EXCEPT !.nScan = @ + 1]
       IN  \/ Set(p, Raise(r, "TimeoutExpired")) \* wpa_cli scan timed out
           \/ Set(p, [r EXCEPT !.pc = "join"]) \* the SSID is in the results
           \/ Set(p, [r EXCEPT !.pc = "upload"])
    /\ UNCHANGED <<store, cooldownAge, lockHolder, lockContent, ssid, disk>>

\* connect_to_flashair() and run() lines 511-512, 516. The call sits before
\* the try of line 517: an exception in it skips the finally of line 552.
Join(p) ==
    /\ At(p, "join")
    /\ LET r == [proc[p] EXCEPT !.nJoin = @ + 1]
       IN  \/ /\ Set(p, Raise(r, "TimeoutExpired"))
              /\ ssid' \in {ssid, NOSSID, FLASHAIR}
           \/ /\ Set(p, [r EXCEPT !.pc = "wait_http", !.net_id = NewNetId,
                                  !.already_on_flashair = TRUE,
                                  !.session = TRUE])
              /\ ssid' \in {NOSSID, FLASHAIR}
    /\ UNCHANGED <<store, cooldownAge, lockHolder, lockContent, disk>>

\* wait_for_flashair() and run() lines 518-519.
WaitHttp(p) ==
    /\ At(p, "wait_http")
    /\ \/ /\ ssid' = FLASHAIR
          /\ Set(p, [proc[p] EXCEPT !.pc = "list"])
       \/ /\ UNCHANGED ssid
          /\ Set(p, [proc[p] EXCEPT !.pc = "return_home"])
    /\ UNCHANGED <<store, cooldownAge, lockHolder, lockContent, disk>>

\* list_flashair_files() and run() lines 521-534.
ListAndPartition(p) ==
    /\ At(p, "list")
    /\ \/ /\ Set(p, [proc[p] EXCEPT !.pc = "return_home", !.exc = "URLError"])
          /\ UNCHANGED cooldownAge
       \/ LET remote_files == sorted(deviceFiles)
              watermark == IF proc[p].resync THEN 0 ELSE lastSynced
              new == collect_new_files(remote_files, watermark)[1]
          IN  IF new = <<>>
              THEN /\ cooldownAge' = _touch_cooldown
                   /\ Set(p, [proc[p] EXCEPT !.pc = "return_home",
                                             !.listed = TRUE, !.touched = TRUE])
              ELSE /\ UNCHANGED cooldownAge
                   /\ Set(p, [proc[p] EXCEPT !.pc = "download",
                                             !.listed = TRUE,
                                             !.new_files = new, !.idx = 1,
                                             !.downloaded = <<>>])
    /\ UNCHANGED <<store, lockHolder, lockContent, ssid, disk>>

\* download_file() and run() lines 536-544: one iteration of the loop.
DownloadOne(p) ==
    /\ At(p, "download")
    /\ LET fname == proc[p].new_files[proc[p].idx]
           last == proc[p].idx = Len(proc[p].new_files)
           r == [proc[p] EXCEPT !.idx = @ + 1,
                                !.pc = IF last THEN "commit" ELSE "download"]
       IN  \/ /\ localFiles' = localFiles \cup {fname}
              /\ fetched' = fetched \cup {fname}
              /\ Set(p, [r EXCEPT !.downloaded = Append(@, fname)])
           \/ /\ UNCHANGED <<localFiles, fetched>> \* the fetch raised
              /\ Set(p, r)
    /\ UNCHANGED <<store, cooldownAge, lockHolder, lockContent, ssid,
                   deviceFiles, remoteFiles>>

\* run() lines 546-549: the cooldown marker is touched under `if downloaded`.
cooldown_always(downloaded) == TRUE
cooldown_after(downloaded) == downloaded # <<>>

\* run() lines 546-550.
CommitDownload(p) ==
    /\ At(p, "commit")
    /\ lastSynced' = IF proc[p].downloaded # <<>>
                     THEN newest(proc[p].downloaded) ELSE lastSynced
    /\ cooldownAge' = IF cooldown_after(proc[p].downloaded)
                      THEN _touch_cooldown ELSE cooldownAge
    /\ Set(p, [proc[p] EXCEPT !.pc = "return_home",
                              !.touched = cooldown_after(proc[p].downloaded)])
    /\ UNCHANGED <<lastScpd, lockHolder, lockContent, ssid, disk>>

\* reconnect_home(cfg, net_id): what it does to the association.
reconnect_home(p, then) ==
    LET r == [proc[p] EXCEPT !.nHome = @ + 1, !.homeArg = proc[p].net_id]
    IN  \/ /\ ssid' = HOME
           /\ Set(p, [r EXCEPT !.pc = IF r.exc # "" THEN "release" ELSE then])
        \/ /\ ssid' \in {NOSSID, FLASHAIR}     \* CONNECT_TIMEOUT elapsed
           /\ Set(p, [r EXCEPT !.pc = IF r.exc # "" THEN "release" ELSE then])
        \/ /\ UNCHANGED ssid                   \* a wpa_cli command timed out
           /\ Set(p, Raise(r, "TimeoutExpired"))

\* run() lines 551-552: the finally of the device session.
ReturnHome(p) ==
    /\ At(p, "return_home")
    /\ reconnect_home(p, "upload")
    /\ UNCHANGED <<store, cooldownAge, lockHolder, lockContent, disk>>

\* run() lines 504-507: the disconnected branch.
RecoverHome(p) ==
    /\ At(p, "recover_home")
    /\ reconnect_home(p, "upload")
    /\ UNCHANGED <<store, cooldownAge, lockHolder, lockContent, disk>>

\* run() lines 555-560 and scp_files() lines 452-453.
StartUpload(p) ==
    /\ At(p, "upload")
    /\ LET to_scp == pending_scp_files(localFiles, lastScpd)
           r == [proc[p] EXCEPT !.didUpload = TRUE, !.to_scp = to_scp,
                                !.sidx = 1, !.last_ok = 0, !.transferred = 0]
       IN  Set(p, [r EXCEPT !.pc = IF to_scp # <<>> THEN "scp" ELSE "cleanup"])
    /\ UNCHANGED <<store, cooldownAge, lockHolder, lockContent, ssid, disk>>

\* scp_files() lines 454-471: one iteration of the loop.
ScpOne(p) ==
    /\ At(p, "scp")
    /\ LET fname == proc[p].to_scp[proc[p].sidx]
           last == proc[p].sidx = Len(proc[p].to_scp)
       IN  \/ /\ remoteFiles' = remoteFiles \cup {fname}
              /\ Set(p, [proc[p] EXCEPT !.transferred = @ + 1,
                                        !.last_ok = fname, !.sidx = @ + 1,
                                        !.pc = IF last THEN "scp_done" ELSE "scp"])
           \/ /\ UNCHANGED remoteFiles         \* returncode # 0: break
              /\ Set(p, [proc[p] EXCEPT !.scpResult = "error",
                                        !.pc = "scp_done"])
           \/ /\ UNCHANGED remoteFiles         \* timeout=60: TimeoutExpired
              /\ Set(p, Raise([proc[p] EXCEPT !.scpResult = "timeout"],
                              "TimeoutExpired"))
    /\ UNCHANGED <<store, cooldownAge, lockHolder, lockContent, ssid,
                   deviceFiles, localFiles, fetched>>

\* scp_files() lines 473-477.
ScpFinish(p) ==
    /\ At(p, "scp_done")
    /\ lastScpd' = IF proc[p].last_ok # 0 THEN proc[p].last_ok ELSE lastScpd
    /\ Set(p, [proc[p] EXCEPT !.pc = "cleanup"])
    /\ UNCHANGED <<lastSynced, cooldownAge, lockHolder, lockContent, ssid, disk>>

\* run() line 563: the watermark the cleanup phase is keyed on.
cleanup_watermark_scpd(synced, scpd) == scpd
cleanup_watermark(synced, scpd) == synced

\* run() lines 562-567.
Cleanup(p) ==
    /\ At(p, "cleanup")
    /\ LET wm == cleanup_watermark(lastSynced, lastScpd)
           gone == IF wm # 0 THEN cleanup_local(localFiles, wm, keep_recent)
                   ELSE {}
       IN  /\ localFiles' = localFiles \ gone
           /\ Set(p, [proc[p] EXCEPT !.pc = "release", !.didCleanup = TRUE,
                                     !.deleted = gone])
    /\ UNCHANGED <<store, cooldownAge, lockHolder, lockContent, ssid,
                   deviceFiles, remoteFiles, fetched>>

\* run() lines 569-570, release_lock().
ReleaseLock(p) ==
    /\ At(p, "release")
    /\ lockHolder' = IF lockHolder = p THEN 0 ELSE lockHolder
    /\ Set(p, Fresh)                           \* the process exits
    /\ UNCHANGED <<store, cooldownAge, lockContent, ssid, disk>>

\* ---------------------------------------------------------- environment
\* The engine monitor writes the next log file to the card.
NewCardFile ==
    /\ \E f \in Files : /\ \A g \in deviceFiles : g < f
                        /\ deviceFiles' = deviceFiles \cup {f}
    /\ UNCHANGED <<store, cooldownAge, lockHolder, lockContent, ssid,
                   localFiles, remoteFiles, fetched, proc>>

\* A minute passes: the cooldown marker ages.
Tick ==
    /\ cooldownAge # None
    /\ cooldownAge < MaxAge
    /\ cooldownAge' = cooldownAge + 1
    /\ UNCHANGED <<store, lockHolder, lockContent, ssid, disk, proc>>

Step(p) ==
    \/ Invoke(p) \/ OpenLock(p) \/ AcquireLock(p) \/ QueryAndDecide(p)
    \/ Scan(p) \/ Join(p) \/ WaitHttp(p) \/ ListAndPartition(p)
    \/ DownloadOne(p) \/ CommitDownload(p) \/ ReturnHome(p) \/ RecoverHome(p)
    \/ StartUpload(p) \/ ScpOne(p) \/ ScpFinish(p) \/ Cleanup(p)
    \/ ReleaseLock(p)

Next == (\E p \in Procs : Step(p)) \/ NewCardFile \/ Tick

Spec == Init /\ [][Next]_vars

\* -------------------------------------------------- the cleanup phase alone
\* A run that has reached the cleanup phase (line 562) with any local
\* directory of up to MaxLocal names and any pair of stored watermarks.
InitCleanup ==
    /\ lastSynced \in 0..MaxLocal
    /\ lastScpd \in 0..lastSynced             \* uploads may lag downloads
    /\ localFiles \in SUBSET (1..MaxLocal)
    /\ cooldownAge = None
    /\ lockHolder = 1
    /\ lockContent = 1
    /\ ssid = HOME
    /\ deviceFiles = {}
    /\ remoteFiles = {}
    /\ fetched = localFiles
    /\ proc = [p \in Procs |->
                 IF p = 1 THEN [Fresh EXCEPT !.pc = "cleanup", !.lock = TRUE,
                                             !.decided = TRUE, !.current = HOME,
                                             !.nScan = 1, !.didUpload = TRUE]
                 ELSE Fresh]

NextCleanup == \E p \in Procs : Cleanup(p) \/ ReleaseLock(p)

SpecCleanup == InitCleanup /\ [][NextCleanup]_vars


\* ------------------------------------------------------------ properties
Ascending(s) == \A i, j \in 1..Len(s) : i < j => s[i] < s[j]
AfterDevicePhase == {"upload", "scp", "scp_done", "cleanup", "release"}
InRun(p) == proc[p].pc \notin {"idle", "open", "flock"}

\* C1: no step of any run (resync or not, whatever fetches fail) moves the
\* stored download watermark LAST_SYNCED backward.
C1_DownloadWatermarkNeverDecreases == [][lastSynced' >= lastSynced]_vars

\* C2: no step of any run moves the stored upload watermark LAST_SCPD
\* backward: the files to send are the local names above the stored upload
\* watermark in ascending order, the files sent so far are a prefix of them,
\* and what is committed is the last one that succeeded.
C2_UploadWatermarkNeverDecreases ==
    [][/\ lastScpd' >= lastScpd
       /\ \A p \in Procs :
            proc'[p].pc \in {"scp", "scp_done"} =>
              LET r == proc'[p]
              IN  /\ Ascending(r.to_scp)
                  /\ \A i \in 1..Len(r.to_scp) :
                        r.to_scp[i] \in localFiles' /\ r.to_scp[i] > lastScpd'
                  /\ r.last_ok = IF r.transferred = 0 THEN 0
                                 ELSE r.to_scp[r.transferred]
       /\ \A p \in Procs :
            (proc[p].pc = "scp_done" /\ proc'[p].pc = "cleanup"
                 /\ proc[p].last_ok # 0) => lastScpd' = proc[p].last_ok]_vars

C2_Witness ==
    \E p \in Procs : /\ proc[p].pc = "cleanup"
                     /\ proc[p].to_scp # <<>>
                     /\ proc[p].to_scp[1] > 1
                     /\ 1 \in localFiles
                     /\ lastScpd = proc[p].last_ok
                     /\ lastScpd # 0

\* C3: every run that acquires the lock executes the upload phase and then
\* the cleanup phase whatever happened in the device phase; in particular a
\* run whose listing request failed still performs return-home, the upload
\* phase and the cleanup phase before it ends.
C3_ListingFailureStillUploadsAndCleans ==
    \A p \in Procs :
        (proc[p].pc = "release" /\ proc[p].exc = "URLError") =>
            proc[p].nHome = 1 /\ proc[p].didUpload /\ proc[p].didCleanup

\* C4: a run that started joining the device network, or started already
\* associated with it, has attempted return-home exactly once when the upload
\* phase begins or the run ends.
C4_ReturnHomeOnceOnEveryExit ==
    \A p \in Procs :
        (/\ proc[p].pc \in AfterDevicePhase
         /\ (proc[p].nJoin > 0 \/ proc[p].current = FLASHAIR)) =>
            proc[p].nHome = 1

\* C5: the steps of a run that finds the lock held by another run leave the
\* watermarks, the cooldown marker, the association, the files and the lock
\* file with its recorded holder id exactly as they were.
C5_ContendedRunHasNoSideEffects ==
    [][\A p \in Procs :
          (proc[p].pc = "flock" /\ proc'[p].pc = "idle") =>
              /\ proc[p].erased = 0
              /\ UNCHANGED <<store, cooldownAge, lockHolder, lockContent,
                             ssid, disk>>]_vars

\* C6: at most one run at a time is between a successful lock acquisition
\* and its lock release, and that run is the holder of the lock.
C6_AtMostOneRunHoldsLock ==
    \A p, q \in Procs :
        (InRun(p) /\ InRun(q)) => (p = q /\ lockHolder = p /\ proc[p].lock)

C6_Witness ==
    \E p, q \in Procs : /\ p # q
                        /\ proc[p].pc = "download"
                        /\ proc[q].pc = "flock"

\* C7: in a device session with new files every new file is attempted, in
\* ascending listing order, even after earlier fetches fail; the commit step
\* stores the maximum of the successfully fetched names if there is one and
\* leaves the stored download watermark unchanged otherwise.
C7_CommitIsMaxOfFetched ==
    [][\A p \in Procs :
          /\ (proc[p].pc = "download" /\ proc'[p] # proc[p]) =>
                /\ Ascending(proc[p].new_files)
                /\ proc'[p].idx = proc[p].idx + 1
                /\ localFiles' \subseteq
                       localFiles \cup {proc[p].new_files[proc[p].idx]}
                /\ Range(proc'[p].downloaded) = Range(proc[p].downloaded)
                       \cup (localFiles' \ localFiles)
                       \cup (IF Len(proc'[p].downloaded) > Len(proc[p].downloaded)
                             THEN {proc[p].new_files[proc[p].idx]} ELSE {})
          /\ (proc[p].pc = "commit" /\ proc'[p].pc # "commit") =>
                /\ proc[p].idx = Len(proc[p].new_files) + 1
                /\ Range(proc[p].downloaded) \subseteq Range(proc[p].new_files)
                /\ lastSynced' =
                     IF proc[p].downloaded = <<>> THEN lastSynced
                     ELSE Max(Range(proc[p].downloaded))]_vars

C7_Witness ==
    \E p \in Procs : /\ proc[p].pc = "return_home"
                     /\ proc[p].new_files = <<1, 2>>
                     /\ proc[p].downloaded = <<1>>
                     /\ lastSynced = 1

\* C8: when the first failing send is the k-th pending file, exactly the
\* first k-1 pending files were transferred, the later ones were never
\* attempted, and the stored upload watermark is the (k-1)-th name when
\* k > 1 and is unchanged when k = 1.
C8_UploadStopsAtFirstFailure ==
    [][\A p \in Procs :
          (/\ proc[p].pc \in {"scp", "scp_done"}
           /\ proc'[p].pc \notin {"scp", "scp_done"}
           /\ proc'[p].scpResult # "none") =>
              LET k == proc'[p].sidx
                  to_scp == proc'[p].to_scp
              IN  /\ proc'[p].transferred = k - 1
                  /\ \A i \in 1..(k - 1) : to_scp[i] \in remoteFiles'
                  /\ lastScpd' = IF k > 1 THEN to_scp[k - 1] ELSE lastScpd]_vars

\* C9: a run without --resync that starts inside the cooldown period and not
\* associated with the device network does no scan, no join, no device
\* session and no return-home and goes straight to the upload phase; a run
\* with --resync in the same state on the home network scans.
C9_CooldownGating ==
    \A p \in Procs :
        /\ (proc[p].cdAtStart /\ ~proc[p].resync
                /\ proc[p].current # FLASHAIR) =>
              /\ proc[p].pc \in AfterDevicePhase
              /\ proc[p].nScan = 0 /\ proc[p].nJoin = 0 /\ proc[p].nHome = 0
              /\ ~proc[p].session
        /\ (proc[p].cdAtStart /\ proc[p].resync /\ proc[p].current = HOME) =>
              (proc[p].pc = "scan" \/ proc[p].nScan = 1)

C9_Witness ==
    \E p \in Procs : /\ proc[p].cdAtStart /\ ~proc[p].resync
                     /\ proc[p].current = HOME
                     /\ proc[p].didUpload

\* C10: a run that starts associated with the device network enters the
\* device session without scan or join, whatever the cooldown marker and the
\* resync flag, and its return-home is called once, with no network handle.
C10_RecoveryBranch ==
    \A p \in Procs :
        proc[p].current = FLASHAIR =>
            /\ proc[p].session
            /\ proc[p].nScan = 0 /\ proc[p].nJoin = 0
            /\ proc[p].net_id = None /\ proc[p].homeArg = None
            /\ proc[p].pc \in {"wait_http", "list", "download", "commit",
                               "return_home"} \cup AfterDevicePhase
            /\ proc[p].pc \in AfterDevicePhase => proc[p].nHome = 1

C10_Witness ==
    \E p \in Procs : /\ proc[p].current = FLASHAIR
                     /\ proc[p].cdAtStart /\ ~proc[p].resync
                     /\ proc[p].nHome = 1


\* The keep most recent (lexically greatest) names of a directory.
MostRecent(S, keep) == {f \in S : Cardinality({g \in S : g > f}) < keep}
CleanupStep(p) == proc[p].pc = "cleanup" /\ proc'[p].pc = "release"

\* C11: the cleanup phase deletes exactly the local files that are outside
\* the K = 10 lexically greatest local files and not above the stored
\* download watermark; with n local files at least min(n, K) are left.
C11_CleanupDeletesExactlyOldSynced ==
    [][\A p \in Procs : CleanupStep(p) =>
          LET gone == localFiles \ localFiles'
              n == Cardinality(localFiles)
          IN  /\ localFiles' \subseteq localFiles
              /\ gone = {f \in localFiles :
                            /\ f \notin MostRecent(localFiles, 10)
                            /\ f <= lastSynced}
              /\ proc'[p].deleted = gone
              /\ Cardinality(localFiles') >= (IF n < 10 THEN n ELSE 10)]_vars

C11_Witness ==
    \E p \in Procs : /\ proc[p].pc = "release"
                     /\ proc[p].deleted = {1, 2}
                     /\ lastSynced = 12
                     /\ localFiles = 3..12


\* Nothing new on the card and nothing pending in the local directory.
Quiet ==
    /\ \A f \in deviceFiles : f <= lastSynced
    /\ \A f \in localFiles : f <= lastScpd
NoTransfer(p) ==
    /\ UNCHANGED <<lastSynced, lastScpd, remoteFiles>>
    /\ Len(proc'[p].downloaded) <= Len(proc[p].downloaded)
    /\ proc'[p].transferred <= proc[p].transferred

\* C12 as stated: when the listing has no name above the stored download
\* watermark and no local name is above the stored upload watermark, no step
\* of any run changes a watermark, fetches a file or sends a file.
C12_IdempotentAnyRun ==
    [][\A p \in Procs : (Quiet /\ proc'[p] # proc[p]) => NoTransfer(p)]_vars

\* C12 as amended: the same, for the steps of runs without the resync flag.
C12_IdempotentWithoutResync ==
    [][\A p \in Procs :
          (Quiet /\ proc'[p] # proc[p] /\ ~proc[p].resync) => NoTransfer(p)]_vars

C12_Witness ==
    \E p \in Procs : /\ Quiet /\ deviceFiles # {} /\ localFiles # {}
                     /\ proc[p].pc = "release" /\ ~proc[p].resync
                     /\ proc[p].listed /\ proc[p].didUpload
                     /\ proc[p].didCleanup /\ proc[p].exc = ""

\* C13: a send that exceeds its timeout is a failed step: the files already
\* sent in that run are committed to the upload watermark and the run goes on
\* to the cleanup phase and ends normally.
C13_TimeoutNeverAbortsRun ==
    \A p \in Procs :
        (proc[p].scpResult = "timeout" /\ proc[p].pc = "release") =>
            /\ proc[p].exc = ""
            /\ proc[p].didCleanup
            /\ proc[p].last_ok # 0 => lastScpd = proc[p].last_ok

\* C14: the lock is held only by a run in progress: a process that has left
\* run(), normally or by an exception, does not hold it, so when no run is in
\* progress the lock is free for the next invocation.
C14_LockReleasedOnEveryPath ==
    /\ \A p \in Procs : /\ lockHolder = p => InRun(p)
                        /\ proc[p].lock => lockHolder = p
    /\ (\A q \in Procs : ~InRun(q)) => lockHolder = 0

C14_Witness ==
    \E p, q \in Procs : /\ p # q
                        /\ proc[p].pc = "idle"
                        /\ proc[q].pc = "query" /\ lockHolder = q
                        /\ ssid = FLASHAIR

\* C15: the listing step splits the sorted listing by the effective
\* watermark w (empty for a resync run, else the stored download watermark):
\* new is the listed names above w (all of them when w is empty), skipped is
\* the listed names not above w, both in listing order.
C15_PartitionCorrect ==
    [][\A p \in Procs :
          (proc[p].pc = "list" /\ proc'[p].listed) =>
              LET w == IF proc[p].resync THEN 0 ELSE lastSynced
                  parts == collect_new_files(sorted(deviceFiles), w)
                  expNew == {f \in deviceFiles : w = 0 \/ f > w}
                  expOld == {f \in deviceFiles : w # 0 /\ f <= w}
              IN  /\ Range(parts[1]) = expNew /\ Ascending(parts[1])
                  /\ Range(parts[2]) = expOld /\ Ascending(parts[2])
                  /\ Len(parts[1]) + Len(parts[2]) = Cardinality(deviceFiles)
                  /\ proc'[p].pc = "download" => proc'[p].new_files = parts[1]
                  /\ proc'[p].pc = "return_home" <=> expNew = {}]_vars

C15_Witness ==
    \E p \in Procs : /\ proc[p].pc = "download" /\ ~proc[p].resync
                     /\ deviceFiles = {1, 2} /\ lastSynced = 1
                     /\ proc[p].new_files = <<2>>


\* C16: the cleanup phase is keyed on the download watermark only: a local
\* file above the stored upload watermark (never sent) is deleted exactly
\* when it is outside the K = 10 most recent files and not above the stored
\* download watermark, so such a file can be deleted.
C16_CleanupIgnoresUploadWatermark ==
    [][\A p \in Procs : CleanupStep(p) =>
          \A f \in localFiles :
              f > lastScpd =>
                  (f \notin localFiles' <=>
                       (f <= lastSynced /\ f \notin MostRecent(localFiles, 10)))]_vars

C16_Witness ==
    \E p \in Procs :
        /\ proc[p].pc = "release"
        /\ \E f \in proc[p].deleted : f > lastScpd /\ f \notin localFiles
        /\ Cardinality({f \in localFiles : f > lastScpd}) >= 10

\* C17: the cooldown marker is reset only by a run whose device session
\* completed a listing and then found no new file or fetched at least one;
\* apart from that the marker only ages.
C17_CooldownTouchedOnlyAfterListing ==
    [][/\ \A p \in Procs :
            (proc'[p].touched /\ ~proc[p].touched) =>
                /\ proc'[p].session /\ proc'[p].listed /\ proc'[p].exc = ""
                /\ proc'[p].new_files = <<>> \/ proc'[p].downloaded # <<>>
                /\ cooldownAge' = 0
       /\ cooldownAge' # cooldownAge =>
            \/ cooldownAge # None /\ cooldownAge' = cooldownAge + 1
            \/ \E p \in Procs : proc'[p].touched /\ ~proc[p].touched]_vars

C17_Witness ==
    \E p \in Procs : /\ proc[p].touched /\ cooldownAge = 0
                     /\ proc[p].downloaded # <<>>
                     /\ Len(proc[p].downloaded) < Len(proc[p].new_files)

C19_DisconnectedRecovery ==
    \A p \in Procs :
        (/\ proc[p].decided /\ proc[p].current = NOSSID
         /\ proc[p].resync \/ ~proc[p].cdAtStart) =>
            /\ proc[p].nScan = 0 /\ proc[p].nJoin = 0 /\ ~proc[p].session
            /\ proc[p].homeArg = None
            /\ proc[p].pc \in AfterDevicePhase => proc[p].nHome = 1
            /\ proc[p].pc = "release" => proc[p].didUpload /\ proc[p].didCleanup

\* C20: while a run holds the lock the lock file contains its process id.
C20_LockFileNamesHolder ==
    \A p \in Procs : lockHolder = p => lockContent = p


\* C21: no device file is skipped by the download watermark: every name on
\* the card that is not above the stored download watermark (it was in the
\* listing of the run that stored it, since the card only gains greater
\* names) has been fetched successfully by some run.
C21_WatermarkCoversOnlyFetched ==
    \A f \in deviceFiles : f <= lastSynced => f \in fetched

\* C22: the upload watermark hides no unsent file: every local file that is
\* not above the stored upload watermark has been sent successfully by some
\* run.
C22_UploadWatermarkCoversOnlySent ==
    \A f \in localFiles : f <= lastScpd => f \in remoteFiles

====
